---- MODULE Spec2Model ----
(***************************************************************************)
(* Model of the playlist editor of BeamerPi                                *)
(* (src/app/static/js/playlist_form.js): the DOMContentLoaded handler and  *)
(* the event handlers it registers.  The DOM the handlers read and write   *)
(* is the state; one action per handler, run to completion.                *)
(***************************************************************************)
EXTENDS FiniteSets, Integers, Sequences, TLC

\* Number of regular catalog entries (entries with a path and a checkbox).
NumEntries == 3

\* ------------------------------------------------------------------------
\* Strings are sequences of one-character strings.

\* String.prototype.toLowerCase on one character of the modelled alphabet.
LowerChar(c) ==
  CASE c = "A" -> "a"
    [] c = "B" -> "b"
    [] c = "C" -> "c"
    [] OTHER -> c

\* String.prototype.toLowerCase
ToLowerCase(s) == [k \in 1..Len(s) |-> LowerChar(s[k])]

\* White space characters String.prototype.trim strips.
IsSpace(c) == c = " "

RECURSIVE TrimStart(_)
TrimStart(s) ==
  IF s = <<>> THEN <<>>
  ELSE IF IsSpace(Head(s)) THEN TrimStart(Tail(s)) ELSE s

RECURSIVE TrimEnd(_)
TrimEnd(s) ==
  IF s = <<>> THEN <<>>
  ELSE IF IsSpace(s[Len(s)]) THEN TrimEnd(SubSeq(s, 1, Len(s) - 1)) ELSE s

\* String.prototype.trim
Trim(s) == TrimEnd(TrimStart(s))

\* String.prototype.includes: q occurs in s as a contiguous substring.
Includes(s, q) ==
  \E off \in 0..(Len(s) - Len(q)) :
    \A k \in 1..Len(q) : s[off + k] = q[k]

\* ------------------------------------------------------------------------
\* Sequence helpers standing for DOM child-list operations.

\* Position of x in seq, 0 when absent.
IndexOf(seq, x) ==
  IF \E k \in 1..Len(seq) : seq[k] = x
  THEN CHOOSE k \in 1..Len(seq) : seq[k] = x /\ \A j \in 1..(k - 1) : seq[j] # x
  ELSE 0

\* Element.remove(): the child list without x.
RemoveChild(seq, x) == SelectSeq(seq, LAMBDA y : y # x)

\* Node.appendChild(x): x becomes the last child; an x that is already a
\* child is moved, not duplicated.
AppendChild(seq, x) == Append(RemoveChild(seq, x), x)

\* Node.insertBefore(x, ref): x is taken out of the list and put back right
\* before ref; the null reference (written <<>>) appends.
InsertBefore(seq, x, ref) ==
  LET rest == RemoveChild(seq, x)
      at == IndexOf(rest, ref)
  IN IF ref = <<>> \/ at = 0
     THEN Append(rest, x)
     ELSE SubSeq(rest, 1, at - 1) \o <<x>> \o SubSeq(rest, at, Len(rest))

SeqToSet(seq) == {seq[k] : k \in 1..Len(seq)}

\* ------------------------------------------------------------------------
\* The server-rendered catalog: [data-video-entry] elements in document
\* order.  Entries 1..NumEntries are regular; they are followed by one entry
\* whose data-video-path is missing and one entry without a checkbox.

PathPool == << <<"a">>, <<"a", "B">>, <<"b", "c">>, <<"c">>, <<"C", "a">> >>

NoPathEntry == NumEntries + 1
NoCheckboxEntry == NumEntries + 2
NumAll == NumEntries + 2
EntryIds == 1..NumAll
Regular == 1..NumEntries

\* Folders of the tree: folder 2 is nested in folder 1.
Folders == {1, 2}

\* The .folder ancestors of entry i.
FolderAncestors(i) ==
  CASE i = 2 -> {1}
    [] i = 3 -> {1, 2}
    [] OTHER -> {}

\* fileEntries: what the map callback builds for the i-th element.
FileEntries ==
  [i \in EntryIds |->
    [path |-> IF i \in Regular THEN PathPool[i]
              ELSE IF i = NoPathEntry THEN <<>> ELSE <<"z", "a">>,
     name |-> IF i = 1 THEN <<"n">>
              ELSE IF i \in Regular THEN PathPool[i]
              ELSE IF i = NoPathEntry THEN <<>> ELSE <<"z", "a">>,
     previewSrc |-> IF i = 1 THEN "src1" ELSE IF i = 2 THEN "src2" ELSE "",
     hasCheckbox |-> i # NoCheckboxEntry]]

\* fileEntryMap.get(path): the entry index, 0 for undefined.
FileEntryMapGet(path) ==
  IF path # <<>> /\ \E i \in EntryIds : FileEntries[i].path = path
  THEN CHOOSE i \in EntryIds :
         /\ FileEntries[i].path = path
         /\ \A j \in EntryIds : FileEntries[j].path = path => j <= i
  ELSE 0

\* The entry a selected-list item was built from.
EntryOfItem(item) == FileEntryMapGet(item)

\* ------------------------------------------------------------------------
\* The page: which of the elements the script looks up are present.

FullPage ==
  [editor |-> TRUE, searchInput |-> TRUE, resultsWrapper |-> TRUE,
   resultsList |-> TRUE, noResultsAlert |-> TRUE, clearButton |-> TRUE,
   selectedList |-> TRUE, selectedEmptyState |-> TRUE, selectedCount |-> TRUE,
   orderedInputsContainer |-> TRUE, previewModal |-> TRUE,
   previewVideo |-> TRUE, previewTitle |-> TRUE]

\* A page with the editor, the catalog and the selected panel but no search box.
NoSearchPage == [FullPage EXCEPT !.searchInput = FALSE, !.clearButton = FALSE]

\* A page with only the required search and selected-list elements.
SparsePage ==
  [FullPage EXCEPT !.noResultsAlert = FALSE, !.clearButton = FALSE,
                   !.selectedEmptyState = FALSE, !.selectedCount = FALSE,
                   !.orderedInputsContainer = FALSE, !.previewModal = FALSE,
                   !.previewVideo = FALSE, !.previewTitle = FALSE]

\* A page without the selected panel.
NoPanelPage ==
  [FullPage EXCEPT !.selectedList = FALSE, !.selectedEmptyState = FALSE,
                   !.selectedCount = FALSE]

\* A page that is not the playlist editor.
OtherPage == [FullPage EXCEPT !.editor = FALSE]

\* ------------------------------------------------------------------------
\* The data-initial-order attribute and the JavaScript value it parses to.

JsArray(items) == [type |-> "array", items |-> items, chars |-> <<>>]
JsString(chars) == [type |-> "string", items |-> <<>>, chars |-> chars]
JsOther(type) == [type |-> type, items |-> <<>>, chars |-> <<>>]
JsUndefined == JsOther("undefined")

AttrAbsent == [kind |-> "absent", value |-> JsUndefined]
AttrEmpty == [kind |-> "empty", value |-> JsUndefined]
AttrMalformed == [kind |-> "malformed", value |-> JsUndefined]
AttrJson(v) == [kind |-> "json", value |-> v]

\* JSON.parse of the attribute text: throws on text that is not JSON.
JsonParse(attr) ==
  IF attr.kind = "json"
  THEN [threw |-> FALSE, value |-> attr.value]
  ELSE [threw |-> TRUE, value |-> JsUndefined]

\* selectedListInitialOrder (the immediately invoked function).
InitialOrderOf(pg, attr) ==
  IF ~pg.selectedList \/ attr.kind \in {"absent", "empty"}
  THEN JsArray(<<>>)
  ELSE LET parsed == JsonParse(attr)
       IN IF parsed.threw THEN JsArray(<<>>) ELSE parsed.value

\* value.length: "TypeError" for null, "undefined" where there is no such
\* property, else the number.
JsLength(v) ==
  CASE v.type = "null" -> "TypeError"
    [] v.type \in {"array", "string"} -> "number"
    [] OTHER -> "undefined"

\* value.length === 0
LengthIsZero(v) ==
  /\ JsLength(v) = "number"
  /\ (IF v.type = "string" THEN Len(v.chars) ELSE Len(v.items)) = 0

\* value.forEach is a function only for arrays.
HasForEach(v) == v.type = "array"

\* ------------------------------------------------------------------------
VARIABLES
  pc,                        \* "init" before DOMContentLoaded, then "ready"
  page,                      \* the elements present in the document
  initialOrderAttr,          \* selectedList.dataset.initialOrder
  selectedListInitialOrder,  \* the parsed initial order
  checked,                   \* checked[i]: entry i's native checkbox
  selectedItems,             \* children of selectedList (each item's path)
  selectedEntryMap,          \* keys of selectedEntryMap
  orderedInputs,             \* values of the hidden ordered_videos inputs
  moveUpDisabled,            \* items whose move-up button is disabled
  moveDownDisabled,          \* items whose move-down button is disabled
  emptyStateHidden,          \* selectedEmptyState has class d-none
  countText,                 \* selectedCount.textContent
  searchValue,               \* searchInput.value
  resultsItems,              \* children of resultsList
  resultsWrapperHidden,      \* resultsWrapper has class d-none
  resultsListHidden,         \* resultsList has class d-none
  noResultsHidden,           \* noResultsAlert has class d-none
  activePreviewEntry,        \* entry index, 0 for null
  previewActive,             \* entries whose element has class preview-active
  previewOpen,               \* previewModal lacks class d-none
  videoSrc,                  \* previewVideo src attribute, "" when removed
  videoPlaying,              \* previewVideo is playing
  previewTitleText,          \* previewTitle.textContent
  folderExpanded,            \* folderExpanded[f]: folder f has class expanded
  wired,                     \* which listeners the load handler registered
  loadThrew,                 \* the load handler ended by an uncaught TypeError
  statusPc,                  \* index.js: "init" before DOMContentLoaded, then "ready"
  statusDoc,                 \* index.js: the indicator elements and data attributes
  indicator,                 \* the badge: dataset.mode, classes, dot classes, text
  inFlight,                  \* fetchStatus calls suspended at await fetch
  awaitingJson               \* fetchStatus calls suspended at await response.json()

selVars == <<selectedItems, selectedEntryMap, orderedInputs, moveUpDisabled,
             moveDownDisabled, emptyStateHidden, countText>>
searchVars == <<searchValue, resultsItems, resultsWrapperHidden,
                resultsListHidden, noResultsHidden>>
previewVars == <<activePreviewEntry, previewActive, previewOpen, videoSrc,
                 videoPlaying, previewTitleText>>
loadVars == <<pc, page, initialOrderAttr, selectedListInitialOrder, wired,
              loadThrew>>
statusVars == <<statusPc, statusDoc, indicator, inFlight, awaitingJson>>
vars == <<loadVars, checked, selVars, searchVars, previewVars, folderExpanded,
          statusVars>>

\* ------------------------------------------------------------------------
\* The selected panel as one value: the state the Selection Model owns.

SelState ==
  [items |-> selectedItems, map |-> selectedEntryMap, inputs |-> orderedInputs,
   up |-> moveUpDisabled, down |-> moveDownDisabled,
   emptyHidden |-> emptyStateHidden, count |-> countText]

\* The label without the singular form.
CountLabel_Plural(itemCount) == [n |-> itemCount, word |-> "Videos"]

CountLabel(itemCount) ==
  IF itemCount = 1 THEN [n |-> 1, word |-> "Video"]
  ELSE [n |-> itemCount, word |-> "Videos"]

updateSelectedSummary(S) ==
  IF ~page.selectedList THEN S
  ELSE LET itemCount == Len(S.items)
       IN [S EXCEPT
             !.emptyHidden = IF page.selectedEmptyState THEN itemCount > 0 ELSE @,
             !.count = IF page.selectedCount THEN CountLabel(itemCount) ELSE @]

\* refreshOrderedInputs without the clearing of the container.
refreshOrderedInputs_NoClear(S) ==
  IF ~page.orderedInputsContainer \/ ~page.selectedList THEN S
  ELSE [S EXCEPT !.inputs = @ \o SelectSeq(S.items, LAMBDA path : path # <<>>)]

refreshOrderedInputs(S) ==
  IF ~page.orderedInputsContainer \/ ~page.selectedList THEN S
  ELSE [S EXCEPT !.inputs = SelectSeq(S.items, LAMBDA path : path # <<>>)]

\* updateReorderControls that disables the boundary buttons and never enables
\* a button again.
updateReorderControls_NoEnable(S) ==
  IF ~page.selectedList THEN S
  ELSE [S EXCEPT
          !.up = @ \cup {S.items[k] : k \in {j \in 1..Len(S.items) : j = 1}},
          !.down = @ \cup {S.items[k] : k \in {j \in 1..Len(S.items) : j = Len(S.items)}}]

updateReorderControls(S) ==
  IF ~page.selectedList THEN S
  ELSE [S EXCEPT
          !.up = {S.items[k] : k \in {j \in 1..Len(S.items) : j = 1}},
          !.down = {S.items[k] : k \in {j \in 1..Len(S.items) : j = Len(S.items)}}]

\* moveSelectedItem without the two boundary returns.
moveSelectedItem_NoBoundary(S, item, direction) ==
  LET at == IndexOf(S.items, item)
      previous == IF at > 1 THEN S.items[at - 1] ELSE <<>>
      afterNext == IF at + 2 <= Len(S.items) THEN S.items[at + 2] ELSE <<>>
      moved ==
        IF direction < 0 THEN InsertBefore(S.items, item, previous)
        ELSE IF direction > 0 THEN InsertBefore(S.items, item, afterNext)
        ELSE S.items
  IN IF ~page.selectedList THEN S
     ELSE updateSelectedSummary(updateReorderControls(refreshOrderedInputs(
            [S EXCEPT !.items = moved])))

\* moveSelectedItem inserting before next instead of before next.nextSibling.
moveSelectedItem_BeforeNext(S, item, direction) ==
  LET at == IndexOf(S.items, item)
      previous == IF at > 1 THEN S.items[at - 1] ELSE <<>>
      next == IF at < Len(S.items) THEN S.items[at + 1] ELSE <<>>
      moved ==
        IF direction < 0 THEN InsertBefore(S.items, item, previous)
        ELSE IF direction > 0 THEN InsertBefore(S.items, item, next)
        ELSE S.items
  IN IF ~page.selectedList THEN S
     ELSE IF direction < 0 /\ previous = <<>> THEN S
     ELSE IF direction > 0 /\ next = <<>> THEN S
     ELSE updateSelectedSummary(updateReorderControls(refreshOrderedInputs(
            [S EXCEPT !.items = moved])))

moveSelectedItem(S, item, direction) ==
  LET at == IndexOf(S.items, item)
      previous == IF at > 1 THEN S.items[at - 1] ELSE <<>>
      next == IF at < Len(S.items) THEN S.items[at + 1] ELSE <<>>
      afterNext == IF at + 2 <= Len(S.items) THEN S.items[at + 2] ELSE <<>>
      moved ==
        IF direction < 0 THEN InsertBefore(S.items, item, previous)
        ELSE IF direction > 0 THEN InsertBefore(S.items, item, afterNext)
        ELSE S.items
  IN IF ~page.selectedList THEN S
     ELSE IF direction < 0 /\ previous = <<>> THEN S
     ELSE IF direction > 0 /\ next = <<>> THEN S
     ELSE updateSelectedSummary(updateReorderControls(refreshOrderedInputs(
            [S EXCEPT !.items = moved])))

\* AddItem putting the new item first instead of last.
AddItem_Prepend(S, path) ==
  [S EXCEPT !.map = @ \cup {path}, !.items = <<path>> \o @]

\* buildSelectedListItem + the insertion of syncSelectedEntry: a new item whose
\* buttons are enabled, appended to the list.
AddItem(S, path) ==
  [S EXCEPT !.map = @ \cup {path}, !.items = Append(@, path)]

\* DropItem filling the gap with the last item of the list.
DropItem_SwapLast(S, path) ==
  LET at == IndexOf(S.items, path)
      last == Len(S.items)
      filled == IF at = 0 \/ at = last THEN S.items
                ELSE [S.items EXCEPT ![at] = S.items[last]]
  IN [S EXCEPT !.items = IF at = 0 THEN filled ELSE SubSeq(filled, 1, last - 1),
               !.map = @ \ {path}, !.up = @ \ {path}, !.down = @ \ {path}]

\* existingItem.remove() and selectedEntryMap.delete(path).
DropItem(S, path) ==
  [S EXCEPT !.items = RemoveChild(@, path), !.map = @ \ {path},
            !.up = @ \ {path}, !.down = @ \ {path}]

\* syncSelectedEntry without the removal branch.
syncSelectedEntry_NoRemoval(S, chk, i) ==
  LET entry == FileEntries[i]
      existingItem == entry.path \in S.map
      changed == IF chk[i] /\ ~existingItem THEN AddItem(S, entry.path) ELSE S
  IN IF ~page.selectedList \/ entry.path = <<>> \/ ~entry.hasCheckbox THEN S
     ELSE updateReorderControls(refreshOrderedInputs(updateSelectedSummary(changed)))

\* syncSelectedEntry without the lookup of an existing item.
syncSelectedEntry_NoLookup(S, chk, i) ==
  LET entry == FileEntries[i]
      changed == IF chk[i] THEN AddItem(S, entry.path) ELSE DropItem(S, entry.path)
  IN IF ~page.selectedList \/ entry.path = <<>> \/ ~entry.hasCheckbox THEN S
     ELSE updateReorderControls(refreshOrderedInputs(updateSelectedSummary(changed)))

\* syncSelectedEntry appending the item of a checked entry every time, so that
\* an existing item moves to the end.
syncSelectedEntry_AlwaysAppend(S, chk, i) ==
  LET entry == FileEntries[i]
      existingItem == entry.path \in S.map
      changed ==
        IF chk[i]
        THEN [S EXCEPT !.map = @ \cup {entry.path},
                       !.items = AppendChild(@, entry.path)]
        ELSE IF existingItem THEN DropItem(S, entry.path) ELSE S
  IN IF ~page.selectedList \/ entry.path = <<>> \/ ~entry.hasCheckbox THEN S
     ELSE updateReorderControls(refreshOrderedInputs(updateSelectedSummary(changed)))

syncSelectedEntry(S, chk, i) ==
  LET entry == FileEntries[i]
      existingItem == entry.path \in S.map
      changed ==
        IF chk[i]
        THEN IF ~existingItem THEN AddItem(S, entry.path) ELSE S
        ELSE IF existingItem THEN DropItem(S, entry.path) ELSE S
  IN IF ~page.selectedList \/ entry.path = <<>> \/ ~entry.hasCheckbox THEN S
     ELSE updateReorderControls(refreshOrderedInputs(updateSelectedSummary(changed)))

\* The forEach of applyInitialOrder creating an item for every listed path.
RECURSIVE AppendListed_Insert(_, _)
AppendListed_Insert(items, order) ==
  IF order = <<>> THEN items
  ELSE AppendListed_Insert(
         IF Head(order) # <<>> THEN items \o <<Head(order)>> ELSE items,
         Tail(order))

\* The forEach of applyInitialOrder: every listed path that has an item moves
\* that item to the end of the list.
RECURSIVE AppendListed(_, _)
AppendListed(items, order) ==
  IF order = <<>> THEN items
  ELSE AppendListed(
         IF Head(order) # <<>> /\ Head(order) \in SeqToSet(items)
         THEN AppendChild(items, Head(order)) ELSE items,
         Tail(order))

\* applyInitialOrder: the panel afterwards, and whether it threw.
applyInitialOrder(S, order) ==
  LET done(T) == updateSelectedSummary(updateReorderControls(refreshOrderedInputs(T)))
  IN IF ~page.selectedList THEN [threw |-> FALSE, sel |-> S]
     ELSE IF JsLength(order) = "TypeError" THEN [threw |-> TRUE, sel |-> S]
     ELSE IF LengthIsZero(order) THEN [threw |-> FALSE, sel |-> done(S)]
     ELSE IF ~HasForEach(order) THEN [threw |-> TRUE, sel |-> S]
     ELSE [threw |-> FALSE,
           sel |-> done([S EXCEPT !.items = AppendListed(S.items, order.items)])]

\* ------------------------------------------------------------------------
\* The search mirror.

SearchState ==
  [value |-> searchValue, items |-> resultsItems,
   wrapperHidden |-> resultsWrapperHidden, listHidden |-> resultsListHidden,
   alertHidden |-> noResultsHidden]

\* buildResultItem leaving the proxy checkbox unchecked.
buildResultItem_Unchecked(chk, i) == [entry |-> i, mirrorChecked |-> FALSE]

\* buildResultItem: the proxy checkbox reads the native checkbox at render time.
buildResultItem(chk, i) ==
  [entry |-> i,
   mirrorChecked |-> IF FileEntries[i].hasCheckbox THEN chk[i] ELSE FALSE]

clearResults(R) ==
  [R EXCEPT !.items = <<>>, !.wrapperHidden = TRUE,
            !.alertHidden = IF page.noResultsAlert THEN TRUE ELSE @]

\* The filter matching the display name as well as the path.
RECURSIVE Matches_ByName(_, _)
Matches_ByName(query, i) ==
  IF i > NumAll THEN <<>>
  ELSE (IF \/ Includes(ToLowerCase(FileEntries[i].path), query)
           \/ Includes(ToLowerCase(FileEntries[i].name), query)
        THEN <<i>> ELSE <<>>)
       \o Matches_ByName(query, i + 1)

\* fileEntries.filter(...): the indices of the matching entries, in order.
RECURSIVE Matches(_, _)
Matches(query, i) ==
  IF i > NumAll THEN <<>>
  ELSE (IF Includes(ToLowerCase(FileEntries[i].path), query) THEN <<i>> ELSE <<>>)
       \o Matches(query, i + 1)

\* updateResults collapsing the panel when nothing matches.
updateResults_NoAlert(R, chk) ==
  LET query == ToLowerCase(Trim(R.value))
      matches == Matches(query, 1)
  IN IF query = <<>> \/ Len(matches) = 0 THEN clearResults(R)
     ELSE [R EXCEPT !.wrapperHidden = FALSE, !.listHidden = FALSE,
                    !.alertHidden = IF page.noResultsAlert THEN TRUE ELSE @,
                    !.items = [k \in 1..Len(matches) |-> buildResultItem(chk, matches[k])]]

updateResults(R, chk) ==
  LET query == ToLowerCase(Trim(R.value))
      matches == Matches(query, 1)
  IN IF query = <<>> THEN clearResults(R)
     ELSE IF Len(matches) = 0
     THEN [R EXCEPT !.items = <<>>, !.wrapperHidden = FALSE, !.listHidden = TRUE,
                    !.alertHidden = IF page.noResultsAlert THEN FALSE ELSE @]
     ELSE [R EXCEPT !.wrapperHidden = FALSE, !.listHidden = FALSE,
                    !.alertHidden = IF page.noResultsAlert THEN TRUE ELSE @,
                    !.items = [k \in 1..Len(matches) |-> buildResultItem(chk, matches[k])]]

\* The change listener without the re-rendering of the results.
ChangeListener_NoRerender(S, R, chk, i) ==
  [sel |-> syncSelectedEntry(S, chk, i), search |-> R]

\* The change listener of entry i's checkbox: the panel and the mirror after it.
ChangeListener(S, R, chk, i) ==
  [sel |-> syncSelectedEntry(S, chk, i),
   search |-> IF Trim(R.value) # <<>> THEN updateResults(R, chk) ELSE R]

\* entry.checkbox.dispatchEvent(new Event('change')): runs the listener when
\* the load handler got as far as registering it.
DispatchChange(S, R, chk, i) ==
  IF wired.change /\ FileEntries[i].hasCheckbox
  THEN ChangeListener(S, R, chk, i)
  ELSE [sel |-> S, search |-> R]

\* ------------------------------------------------------------------------
\* The preview coordinator.

PreviewState ==
  [active |-> activePreviewEntry, flagged |-> previewActive, open |-> previewOpen,
   src |-> videoSrc, playing |-> videoPlaying, title |-> previewTitleText]

\* highlightPreviewEntry without the removal of the previous highlight.
highlightPreviewEntry_NoClear(P, path) ==
  LET entry == FileEntryMapGet(path)
  IN IF path = <<>> THEN P
     ELSE IF entry = 0 THEN P
     ELSE [P EXCEPT !.flagged = @ \cup {entry}, !.active = entry]

highlightPreviewEntry(P, path) ==
  LET entry == FileEntryMapGet(path)
  IN IF path = <<>> THEN P
     ELSE IF entry = 0 THEN P
     ELSE [P EXCEPT
             !.flagged = (IF P.active # 0 /\ P.active # entry
                          THEN @ \ {P.active} ELSE @) \cup {entry},
             !.active = entry]

isPreviewOpen == page.previewModal /\ previewOpen

\* closePreview hiding the modal and pausing, but keeping the video source.
closePreview_KeepSrc(P) ==
  IF ~page.previewModal THEN P
  ELSE [P EXCEPT !.playing = IF page.previewVideo THEN FALSE ELSE @,
                 !.open = FALSE]

closePreview(P) ==
  IF ~page.previewModal THEN P
  ELSE [P EXCEPT !.playing = IF page.previewVideo THEN FALSE ELSE @,
                 !.src = IF page.previewVideo THEN "" ELSE @,
                 !.open = FALSE]

openPreview(P, videoName, videoSrcArg, videoPath) ==
  IF ~page.previewModal \/ ~page.previewVideo \/ videoSrcArg = "" THEN P
  ELSE LET titled == [P EXCEPT !.title = IF page.previewTitle
                                         THEN <<"Vorschau", videoName>> ELSE @,
                               !.src = videoSrcArg]
           lit == highlightPreviewEntry(titled, videoPath)
       IN [lit EXCEPT !.open = TRUE, !.playing = TRUE]

\* The document click listener for an element with data-preview-trigger;
\* closestPath is the data-video-path of the enclosing [data-video-entry],
\* <<>> when there is none.
PreviewTriggerClick(P, videoName, videoSrcArg, videoPath, closestPath) ==
  openPreview(
    IF closestPath # <<>> THEN highlightPreviewEntry(P, closestPath)
    ELSE highlightPreviewEntry(P, videoPath),
    videoName, videoSrcArg, videoPath)

\* The data attributes buildSelectedListItem and buildResultItem give a
\* preview button of entry i.
TriggerName(i) ==
  IF FileEntries[i].name # <<>> THEN FileEntries[i].name ELSE FileEntries[i].path

\* ------------------------------------------------------------------------
\* Folders.

updateFolderState(F, folder, expanded) == [F EXCEPT ![folder] = expanded]

\* revealEntry stopping after the nearest folder.
revealEntry_NearestOnly(F, i) ==
  [f \in Folders |->
     IF f \in FolderAncestors(i) /\ (\A g \in FolderAncestors(i) : g <= f)
     THEN TRUE ELSE F[f]]

\* revealEntry: every .folder ancestor of the entry is expanded.
revealEntry(F, i) == [f \in Folders |-> IF f \in FolderAncestors(i) THEN TRUE ELSE F[f]]

\* ------------------------------------------------------------------------
\* Writing a panel, mirror or preview value back to the variables.

SetSel(S) ==
  /\ selectedItems' = S.items
  /\ selectedEntryMap' = S.map
  /\ orderedInputs' = S.inputs
  /\ moveUpDisabled' = S.up
  /\ moveDownDisabled' = S.down
  /\ emptyStateHidden' = S.emptyHidden
  /\ countText' = S.count

SetSearch(R) ==
  /\ searchValue' = R.value
  /\ resultsItems' = R.items
  /\ resultsWrapperHidden' = R.wrapperHidden
  /\ resultsListHidden' = R.listHidden
  /\ noResultsHidden' = R.alertHidden

SetPreview(P) ==
  /\ activePreviewEntry' = P.active
  /\ previewActive' = P.flagged
  /\ previewOpen' = P.open
  /\ videoSrc' = P.src
  /\ videoPlaying' = P.playing
  /\ previewTitleText' = P.title

\* ------------------------------------------------------------------------
\* The status indicator (index.js).

\* The indicator element with its dot and text children and its data
\* attributes; "" stands for an absent or empty attribute.
IndicatorDoc(hasDot, hasText, activePlaylist, endpoint, mode) ==
  [indicator |-> TRUE, dot |-> hasDot, text |-> hasText,
   activePlaylist |-> activePlaylist, statusEndpoint |-> endpoint, mode |-> mode]

NoIndicatorDoc ==
  [indicator |-> FALSE, dot |-> FALSE, text |-> FALSE,
   activePlaylist |-> "", statusEndpoint |-> "", mode |-> ""]

\* playlistName and statusEndpoint: "" stands for null.
playlistName(D) == IF D.indicator THEN D.activePlaylist ELSE ""

statusEndpoint(D) == IF D.indicator THEN D.statusEndpoint ELSE ""

textClassesToReset == {"text-success", "text-danger", "text-muted"}

dotClassesToReset == {"bg-success", "bg-danger", "bg-secondary"}

modeConfig ==
  [trigger |-> [text |-> "Trigger-Video", textClass |-> "text-danger",
                dotClass |-> "bg-danger"],
   loop |-> [text |-> "Loop-Video", textClass |-> "text-success",
             dotClass |-> "bg-success"],
   idle |-> [text |-> "Keine Wiedergabe", textClass |-> "text-muted",
             dotClass |-> "bg-secondary"]]

\* Property names every object literal inherits from Object.prototype.
ObjectPrototypeNames ==
  {"constructor", "toString", "toLocaleString", "valueOf", "hasOwnProperty",
   "isPrototypeOf", "propertyIsEnumerable", "__proto__"}

\* modeConfig[mode] || modeConfig.idle. An inherited member is truthy and has
\* no text, textClass or dotClass: classList.add(undefined) adds the token
\* "undefined" and textContent = undefined empties the text.
ConfigOf(mode) ==
  IF mode \in DOMAIN modeConfig THEN modeConfig[mode]
  ELSE IF mode \in ObjectPrototypeNames
       THEN [text |-> "", textClass |-> "undefined", dotClass |-> "undefined"]
       ELSE modeConfig.idle

\* applyMode writing the text class to the dot as well.
applyMode_Swapped(D, B, mode) ==
  IF ~D.indicator \/ ~D.dot \/ ~D.text THEN B
  ELSE [mode |-> mode,
        classes |-> (B.classes \ textClassesToReset) \cup {ConfigOf(mode).dotClass},
        dotClasses |-> (B.dotClasses \ dotClassesToReset) \cup {ConfigOf(mode).textClass},
        text |-> ConfigOf(mode).text]

\* applyMode: the badge B afterwards.
applyMode(D, B, mode) ==
  IF ~D.indicator \/ ~D.dot \/ ~D.text THEN B
  ELSE [mode |-> mode,
        classes |-> (B.classes \ textClassesToReset) \cup {ConfigOf(mode).textClass},
        dotClasses |-> (B.dotClasses \ dotClassesToReset) \cup {ConfigOf(mode).dotClass},
        text |-> ConfigOf(mode).text]

\* How the fetch of a status request can end: it rejects, or it resolves with
\* a response that is OK or not.
FetchOutcomes == {"rejected", "notOk", "ok"}

\* fetchStatus resumed after await fetch goes on to response.json() only for
\* a response that is OK; otherwise it ends.
ReadsBody(outcome) == outcome = "ok"

\* The member payload.status.mode of a JSON body; "" stands for an absent or
\* empty member.
StatusModes == {"", "trigger", "loop", "idle", "paused", "constructor"}

Payloads ==
  {pl \in [active_playlist : {"", "p", "q"}, hasStatus : BOOLEAN, mode : StatusModes] :
     ~pl.hasStatus => pl.mode = ""}

\* How response.json() can end: it rejects because the body is not JSON, or
\* it resolves with the parsed object.
Bodies ==
  {[kind |-> "badJson"]} \cup {[kind |-> "json", payload |-> pl] : pl \in Payloads}

\* fetchStatus resumed after await response.json() with the body b: the badge
\* afterwards.
fetchStatusParsed(D, B, b) ==
  IF b.kind # "json" THEN B
  ELSE IF /\ playlistName(D) # ""
          /\ b.payload.active_playlist # ""
          /\ b.payload.active_playlist # playlistName(D)
       THEN B
       ELSE applyMode(D, B, IF b.payload.hasStatus /\ b.payload.mode # ""
                            THEN b.payload.mode ELSE "idle")

\* ------------------------------------------------------------------------
\* The documents the model is run on.

Pages == {FullPage, NoSearchPage, SparsePage, NoPanelPage, OtherPage}

\* A valid data-initial-order: the third and the first catalog path.
PartialOrderAttr == AttrJson(JsArray(<<PathPool[3], PathPool[1]>>))

\* The documents the handlers are run on: a page and its data-initial-order.
Documents ==
  {<<FullPage, AttrAbsent>>, <<SparsePage, PartialOrderAttr>>,
   <<NoSearchPage, AttrAbsent>>, <<OtherPage, AttrAbsent>>}

\* What the user types into the search box.
Queries == {<<>>, <<" ">>, <<"B", " ">>, <<"z">>, <<"n">>}

\* The state of the document before DOMContentLoaded.
InitWith(documents, statusDocs) ==
  /\ pc = "init"
  /\ \E doc \in documents : page = doc[1] /\ initialOrderAttr = doc[2]
  /\ selectedListInitialOrder = JsUndefined
  /\ checked \in {c \in [EntryIds -> BOOLEAN] : ~c[NoCheckboxEntry]}
  /\ selectedItems = <<>>
  /\ selectedEntryMap = {}
  /\ orderedInputs = <<>>
  /\ moveUpDisabled = {}
  /\ moveDownDisabled = {}
  /\ emptyStateHidden = FALSE
  /\ countText = [n |-> 0, word |-> ""]
  /\ searchValue = <<>>
  /\ resultsItems = <<>>
  /\ resultsWrapperHidden = TRUE
  /\ resultsListHidden = FALSE
  /\ noResultsHidden = TRUE
  /\ activePreviewEntry = 0
  /\ previewActive = {}
  /\ previewOpen = FALSE
  /\ videoSrc = ""
  /\ videoPlaying = FALSE
  /\ previewTitleText = <<"", <<>>>>
  /\ folderExpanded = [f \in Folders |-> TRUE]
  /\ wired = [preview |-> FALSE, folders |-> FALSE, search |-> FALSE,
              change |-> FALSE, clear |-> FALSE]
  /\ loadThrew = FALSE
  /\ statusPc = "init"
  /\ inFlight = 0
  /\ awaitingJson = 0
  /\ statusDoc \in statusDocs
  /\ indicator = [mode |-> statusDoc.mode, classes |-> {}, dotClasses |-> {},
                  text |-> ""]

Init == InitWith(Documents, {NoIndicatorDoc})

\* ------------------------------------------------------------------------
\* The DOMContentLoaded handler.

\* fileEntries.forEach of the load handler: the initial syncSelectedEntry of
\* every entry that has a checkbox, in document order.
RECURSIVE InitialSync(_, _)
InitialSync(S, i) ==
  IF i > NumAll THEN S
  ELSE InitialSync(IF FileEntries[i].hasCheckbox
                   THEN syncSelectedEntry(S, checked, i) ELSE S, i + 1)

HasSearchSurface == page.searchInput /\ page.resultsWrapper /\ page.resultsList

Load ==
  /\ pc = "init"
  /\ pc' = "ready"
  /\ UNCHANGED <<page, initialOrderAttr, checked, searchVars, previewVars,
                  statusVars>>
  /\ IF ~page.editor
     THEN UNCHANGED <<selectedListInitialOrder, selVars, folderExpanded, wired,
                      loadThrew>>
     ELSE LET order == InitialOrderOf(page, initialOrderAttr)
              applied == applyInitialOrder(InitialSync(SelState, 1), order)
          IN /\ selectedListInitialOrder' = order
             /\ folderExpanded' = [f \in Folders |-> FALSE]
             /\ IF ~HasSearchSurface
                THEN /\ UNCHANGED <<selVars, loadThrew>>
                     /\ wired' = [wired EXCEPT !.preview = TRUE, !.folders = TRUE]
                ELSE /\ SetSel(applied.sel)
                     /\ loadThrew' = applied.threw
                     /\ wired' = [preview |-> TRUE, folders |-> TRUE,
                                  search |-> TRUE, change |-> TRUE,
                                  clear |-> page.clearButton /\ ~applied.threw]

\* ------------------------------------------------------------------------
\* Toggle changes.

\* What a toggle change of entry i leaves behind once the native checkbox
\* holds chk[i]; R is the mirror as the event finds it.
ToggleOutcome(chk, R, i) ==
  LET after == DispatchChange(SelState, R, chk, i)
  IN [checked |-> chk, sel |-> after.sel, search |-> after.search]

ApplyToggle(outcome) ==
  /\ checked' = outcome.checked
  /\ SetSel(outcome.sel)
  /\ SetSearch(outcome.search)
  /\ UNCHANGED <<statusVars, loadVars, previewVars, folderExpanded>>

\* A click on the native checkbox of entry i: the browser flips it and fires
\* the change event.
NativeClickOutcome(i) ==
  ToggleOutcome([checked EXCEPT ![i] = ~@], SearchState, i)

NativeClick(i) ==
  /\ pc = "ready"
  /\ FileEntries[i].hasCheckbox
  /\ ApplyToggle(NativeClickOutcome(i))

\* A change event reaches entry i's checkbox although its state did not change.
ChangeEvent(i) ==
  /\ pc = "ready"
  /\ wired.change
  /\ FileEntries[i].hasCheckbox
  /\ ApplyToggle(ToggleOutcome(checked, SearchState, i))

ResultsShown == ~resultsWrapperHidden /\ ~resultsListHidden

\* A click on the proxy checkbox of the k-th search result: the browser flips
\* the proxy, its change listener copies it to the native checkbox and
\* dispatches a change event there.
ProxyClickOutcome(k) ==
  LET i == resultsItems[k].entry
      mirrorChecked == ~resultsItems[k].mirrorChecked
      R == [SearchState EXCEPT !.items[k].mirrorChecked = mirrorChecked]
  IN IF FileEntries[i].hasCheckbox
     THEN ToggleOutcome([checked EXCEPT ![i] = mirrorChecked], R, i)
     ELSE [checked |-> checked, sel |-> SelState, search |-> R]

ProxyClick(k) ==
  /\ pc = "ready"
  /\ ResultsShown
  /\ k \in 1..Len(resultsItems)
  /\ ApplyToggle(ProxyClickOutcome(k))

\* The remove button only unchecking the checkbox, without the change event.
RemoveOutcome_NoDispatch(item) ==
  LET i == EntryOfItem(item)
  IN [checked |-> IF FileEntries[i].hasCheckbox
                  THEN [checked EXCEPT ![i] = FALSE] ELSE checked,
      sel |-> SelState, search |-> SearchState]

\* What a click on the remove button of a selected item leaves behind: the
\* listener unchecks the entry's native checkbox and dispatches a change
\* event on it.
RemoveOutcome(item) ==
  LET i == EntryOfItem(item)
  IN IF FileEntries[i].hasCheckbox
     THEN ToggleOutcome([checked EXCEPT ![i] = FALSE], SearchState, i)
     ELSE [checked |-> checked, sel |-> SelState, search |-> SearchState]

\* The user clicks the remove button of a selected item.
RemoveClick(item) ==
  /\ pc = "ready"
  /\ item \in SeqToSet(selectedItems)
  /\ EntryOfItem(item) # 0
  /\ ApplyToggle(RemoveOutcome(item))

\* ------------------------------------------------------------------------
\* Reordering.

\* What a click on a move button of an item leaves behind: the handler calls
\* moveSelectedItem and touches no checkbox.
MoveOutcome(item, direction) ==
  [checked |-> checked, sel |-> moveSelectedItem(SelState, item, direction)]

MoveClick(item, direction) ==
  /\ pc = "ready"
  /\ item \in SeqToSet(selectedItems)
  /\ checked' = MoveOutcome(item, direction).checked
  /\ SetSel(MoveOutcome(item, direction).sel)
  /\ UNCHANGED <<statusVars, loadVars, searchVars, previewVars, folderExpanded>>

MoveUpClick(item) == MoveClick(item, -1)

MoveDownClick(item) == MoveClick(item, 1)

\* ------------------------------------------------------------------------
\* Searching.

SearchInput(q) ==
  /\ pc = "ready"
  /\ wired.search
  /\ q # searchValue
  /\ SetSearch(updateResults([SearchState EXCEPT !.value = q], checked))
  /\ UNCHANGED <<statusVars, loadVars, checked, selVars, previewVars, folderExpanded>>

ClearClick ==
  /\ pc = "ready"
  /\ wired.clear
  /\ SetSearch(clearResults([SearchState EXCEPT !.value = <<>>]))
  /\ UNCHANGED <<statusVars, loadVars, checked, selVars, previewVars, folderExpanded>>

RevealClick(k) ==
  /\ pc = "ready"
  /\ ResultsShown
  /\ k \in 1..Len(resultsItems)
  /\ folderExpanded' = revealEntry(folderExpanded, resultsItems[k].entry)
  /\ UNCHANGED <<statusVars, loadVars, checked, selVars, searchVars, previewVars>>

\* ------------------------------------------------------------------------
\* Previewing.

\* The trigger click also reaching the checkbox of the previewed entry, as
\* a click without preventDefault inside the entry's label would.
PreviewClicked_Selecting(videoName, videoSrcArg, videoPath, closestPath) ==
  /\ pc = "ready"
  /\ wired.preview
  /\ SetPreview(PreviewTriggerClick(PreviewState, videoName, videoSrcArg,
                                    videoPath, closestPath))
  /\ LET out == NativeClickOutcome(FileEntryMapGet(videoPath))
     IN checked' = out.checked /\ SetSel(out.sel) /\ SetSearch(out.search)
  /\ UNCHANGED <<statusVars, loadVars, folderExpanded>>

PreviewClicked(videoName, videoSrcArg, videoPath, closestPath) ==
  /\ pc = "ready"
  /\ wired.preview
  /\ UNCHANGED <<statusVars, loadVars, checked, selVars, searchVars, folderExpanded>>
  /\ SetPreview(PreviewTriggerClick(PreviewState, videoName, videoSrcArg,
                                    videoPath, closestPath))

\* The preview trigger rendered inside the tree entry i, carrying the entry's
\* name, path and media URI (none for an entry without preview source).
TreePreviewClick(i) ==
  /\ i \in Regular
  /\ PreviewClicked(TriggerName(i), FileEntries[i].previewSrc,
                    FileEntries[i].path, FileEntries[i].path)

\* The preview button of a selected item.
PanelPreviewClick(item) ==
  /\ item \in SeqToSet(selectedItems)
  /\ LET i == EntryOfItem(item)
     IN /\ i # 0
        /\ FileEntries[i].previewSrc # ""
        /\ PreviewClicked(TriggerName(i), FileEntries[i].previewSrc,
                          FileEntries[i].path, <<>>)

\* The preview button of the k-th search result.
ResultPreviewClick(k) ==
  /\ ResultsShown
  /\ k \in 1..Len(resultsItems)
  /\ LET i == resultsItems[k].entry
     IN /\ FileEntries[i].previewSrc # ""
        /\ PreviewClicked(TriggerName(i), FileEntries[i].previewSrc,
                          FileEntries[i].path, <<>>)

ClosePreviewStep ==
  /\ pc = "ready"
  /\ wired.preview
  /\ UNCHANGED <<statusVars, loadVars, checked, selVars, searchVars, folderExpanded>>
  /\ SetPreview(closePreview(PreviewState))

\* A click on a [data-preview-close] button of the visible modal.
CloseButtonClick == isPreviewOpen /\ ClosePreviewStep

\* A click on the backdrop, the modal element itself.
BackdropClick == isPreviewOpen /\ ClosePreviewStep

\* What the keydown listener leaves behind for the Escape key.
EscapeOutcome ==
  IF isPreviewOpen THEN closePreview(PreviewState) ELSE PreviewState

\* The keydown listener: Escape closes an open preview.
EscapeKey ==
  /\ pc = "ready"
  /\ wired.preview
  /\ UNCHANGED <<statusVars, loadVars, checked, selVars, searchVars, folderExpanded>>
  /\ SetPreview(EscapeOutcome)

\* ------------------------------------------------------------------------
\* Folders.

FolderStep(F) ==
  /\ pc = "ready"
  /\ wired.folders
  /\ folderExpanded' = F
  /\ UNCHANGED <<statusVars, loadVars, checked, selVars, searchVars, previewVars>>

FolderToggleClick(f) ==
  FolderStep(updateFolderState(folderExpanded, f, ~folderExpanded[f]))

ExpandAllClick == FolderStep([f \in Folders |-> TRUE])

CollapseAllClick == FolderStep([f \in Folders |-> FALSE])

\* ------------------------------------------------------------------------
Next ==
  \/ Load
  \/ \E i \in EntryIds : NativeClick(i)
  \/ \E i \in EntryIds : ChangeEvent(i)
  \/ \E k \in 1..NumAll : ProxyClick(k)
  \/ \E i \in Regular : RemoveClick(PathPool[i])
  \/ \E i \in Regular : MoveUpClick(PathPool[i])
  \/ \E i \in Regular : MoveDownClick(PathPool[i])
  \/ \E q \in Queries : SearchInput(q)
  \/ ClearClick
  \/ \E k \in 1..NumAll : RevealClick(k)
  \/ \E i \in Regular : TreePreviewClick(i)
  \/ \E i \in Regular : PanelPreviewClick(PathPool[i])
  \/ \E k \in 1..NumAll : ResultPreviewClick(k)
  \/ CloseButtonClick
  \/ BackdropClick
  \/ EscapeKey
  \/ \E f \in Folders : FolderToggleClick(f)
  \/ ExpandAllClick
  \/ CollapseAllClick

Spec == Init /\ [][Next]_vars

\* ------------------------------------------------------------------------
\* The handlers that write checkboxes, the selected panel or the search
\* mirror, without the preview and folder handlers, which write neither.

NextSelection ==
  \/ Load
  \/ \E i \in EntryIds : NativeClick(i)
  \/ \E i \in EntryIds : ChangeEvent(i)
  \/ \E k \in 1..NumAll : ProxyClick(k)
  \/ \E i \in Regular : RemoveClick(PathPool[i])
  \/ \E i \in Regular : MoveUpClick(PathPool[i])
  \/ \E i \in Regular : MoveDownClick(PathPool[i])
  \/ \E q \in Queries : SearchInput(q)
  \/ ClearClick

SpecSelection == Init /\ [][NextSelection]_vars

\* The same handlers together with the preview handlers, without the folder
\* handlers.
NextPreview ==
  \/ NextSelection
  \/ \E i \in Regular : TreePreviewClick(i)
  \/ \E i \in Regular : PanelPreviewClick(PathPool[i])
  \/ \E k \in 1..NumAll : ResultPreviewClick(k)
  \/ CloseButtonClick
  \/ BackdropClick
  \/ EscapeKey

SpecPreview == Init /\ [][NextPreview]_vars

\* ------------------------------------------------------------------------
\* Page load alone, over a wider range of documents.

LoadAttrs ==
  {AttrAbsent, AttrEmpty, AttrMalformed,
   AttrJson(JsArray(<<>>)),
   AttrJson(JsArray(<<PathPool[3], PathPool[1]>>)),
   AttrJson(JsArray(<<PathPool[2]>>)),
   AttrJson(JsArray(<<PathPool[3], PathPool[2], PathPool[1]>>)),
   AttrJson(JsArray(<<PathPool[3], PathPool[1], PathPool[3]>>)),
   AttrJson(JsArray(<<<<"z", "z">>, PathPool[2]>>)),
   AttrJson(JsArray(<<FileEntries[NoCheckboxEntry].path, PathPool[1]>>)),
   AttrJson(JsOther("object")), AttrJson(JsOther("number")),
   AttrJson(JsOther("null")), AttrJson(JsOther("boolean")),
   AttrJson(JsString(<<"c", "a">>)), AttrJson(JsString(<<>>))}

InitLoad == InitWith(Pages \X LoadAttrs, {NoIndicatorDoc})

NextLoad == Load

SpecLoad == InitLoad /\ [][NextLoad]_vars

\* ------------------------------------------------------------------------
\* The status indicator polling while the user toggles entries.

MaxInFlight == 2

StatusDocs ==
  {IndicatorDoc(TRUE, TRUE, "p", "/status", "loop"),
   IndicatorDoc(TRUE, TRUE, "", "/status", ""),
   IndicatorDoc(FALSE, TRUE, "p", "/status", "trigger"),
   IndicatorDoc(TRUE, TRUE, "p", "", "trigger"),
   NoIndicatorDoc}

formVars == <<loadVars, checked, selVars, searchVars, previewVars, folderExpanded>>

\* DOMContentLoaded of index.js: the initial applyMode, then the first
\* fetchStatus up to its await.
StatusLoad ==
  /\ statusPc = "init"
  /\ statusPc' = "ready"
  /\ indicator' = applyMode(statusDoc, indicator,
                            IF statusDoc.indicator /\ indicator.mode # ""
                            THEN indicator.mode ELSE "idle")
  /\ inFlight' = IF statusDoc.indicator /\ statusEndpoint(statusDoc) # "" THEN 1 ELSE 0
  /\ UNCHANGED <<statusDoc, awaitingJson, formVars>>

\* The interval timer calls fetchStatus, which runs up to await fetch.
IntervalTick ==
  /\ statusPc = "ready"
  /\ statusDoc.indicator /\ statusEndpoint(statusDoc) # ""
  /\ inFlight + awaitingJson < MaxInFlight
  /\ inFlight' = inFlight + 1
  /\ UNCHANGED <<statusPc, statusDoc, indicator, awaitingJson, formVars>>

\* The fetch of one request settles and its fetchStatus resumes: it ends, or
\* it calls response.json() and suspends at the second await.
FetchSettles(outcome) ==
  /\ statusPc = "ready"
  /\ inFlight > 0
  /\ inFlight' = inFlight - 1
  /\ awaitingJson' = IF ReadsBody(outcome) THEN awaitingJson + 1 ELSE awaitingJson
  /\ UNCHANGED <<statusPc, statusDoc, indicator, formVars>>

\* response.json() of one request settles with b and its fetchStatus resumes
\* for the last time.
BodySettles(b) ==
  /\ statusPc = "ready"
  /\ awaitingJson > 0
  /\ awaitingJson' = awaitingJson - 1
  /\ indicator' = fetchStatusParsed(statusDoc, indicator, b)
  /\ UNCHANGED <<statusPc, statusDoc, inFlight, formVars>>

InitStatus == InitWith({<<FullPage, AttrAbsent>>}, StatusDocs)

NextStatus ==
  \/ StatusLoad
  \/ IntervalTick
  \/ \E outcome \in FetchOutcomes : FetchSettles(outcome)
  \/ \E b \in Bodies : BodySettles(b)
  \/ Load
  \/ \E i \in EntryIds : NativeClick(i)

SpecStatus == InitStatus /\ [][NextStatus]_vars

\* ------------------------------------------------------------------------
\* Vocabulary of the properties.

\* The page has the editor, the search box with its results elements and
\* the selected panel: the three surfaces a toggle change can come from.
SelectionPage == page.editor /\ HasSearchSurface /\ page.selectedList

\* The non-empty identifiers whose native checkbox is checked.
CheckedIds ==
  {FileEntries[i].path :
     i \in {j \in EntryIds : /\ FileEntries[j].hasCheckbox
                             /\ FileEntries[j].path # <<>>
                             /\ checked[j]}}

\* The checked identifiers in document (encounter) order.
RECURSIVE EncounterFrom(_)
EncounterFrom(i) ==
  IF i > NumAll THEN <<>>
  ELSE (IF FileEntries[i].path \in CheckedIds THEN <<FileEntries[i].path>> ELSE <<>>)
       \o EncounterFrom(i + 1)

EncounterOrder == EncounterFrom(1)

\* The non-empty identifiers checked in the checkbox assignment chk.
CheckedIdsOf(chk) ==
  {FileEntries[i].path :
     i \in {j \in EntryIds : /\ FileEntries[j].hasCheckbox
                             /\ FileEntries[j].path # <<>>
                             /\ chk[j]}}

NoDuplicates(seq) == \A a, b \in 1..Len(seq) : seq[a] = seq[b] => a = b

Swapped(seq, a, b) ==
  [k \in 1..Len(seq) |-> IF k = a THEN seq[b] ELSE IF k = b THEN seq[a] ELSE seq[k]]

RegularPaths == {FileEntries[i].path : i \in Regular}

\* The identifier contains q as a contiguous substring, letter case ignored.
ContainsIgnoringCase(path, q) ==
  \E off \in 0..(Len(path) - Len(q)) :
    \A k \in 1..Len(q) : LowerChar(path[off + k]) = LowerChar(q[k])

\* The catalog entries whose identifier contains the non-empty query q.
MatchingEntries(q) ==
  {i \in EntryIds : /\ FileEntries[i].path # <<>>
                    /\ ContainsIgnoringCase(FileEntries[i].path, q)}

\* The catalog entries the rendered results stand for, in rendered order.
RenderedEntries == [k \in 1..Len(resultsItems) |-> resultsItems[k].entry]

\* The page has the editor and the search box with its results elements.
SearchPage == page.editor /\ HasSearchSurface

\* ------------------------------------------------------------------------
\* C1 (Invariant A): once the page is loaded, on a page with the three
\* toggle surfaces, the identifiers that have an item in the selected list are
\* exactly the non-empty identifiers whose native checkbox is checked.
InvariantA ==
  (pc = "ready" /\ SelectionPage) => SeqToSet(selectedItems) = CheckedIds

\* A loaded full page with results shown where the second and then the third
\* entry are selected and the first one is not.
WitnessC1 ==
  /\ pc = "ready" /\ page = FullPage /\ initialOrderAttr = AttrAbsent
  /\ ResultsShown /\ Len(resultsItems) > 0
  /\ selectedItems = <<PathPool[3], PathPool[2]>>
  /\ ~checked[1] /\ checked[NoPathEntry]

\* C2 (serialization round trip): once the page is loaded, the values of the
\* hidden ordered_videos inputs are the identifiers of the selected list, in
\* list order.
SerializationRoundTrip ==
  (pc = "ready" /\ SelectionPage /\ page.orderedInputsContainer)
    => orderedInputs = selectedItems

\* A loaded page whose selected list has been reordered against document
\* order, with the hidden inputs in the new order.
WitnessC2 ==
  /\ pc = "ready" /\ page = FullPage /\ initialOrderAttr = AttrAbsent
  /\ selectedItems = <<PathPool[2], PathPool[3], PathPool[1]>>
  /\ orderedInputs = selectedItems

\* C3 (initial order, partial application), as the specification states it:
\* after load with an array without repetitions as initial order, the
\* selected list is the listed selected identifiers in listed order followed
\* by the selected identifiers not listed, in encounter order.
ListedThenUnlisted(order, encounter) ==
  SelectSeq(order, LAMBDA path : path \in SeqToSet(encounter))
    \o SelectSeq(encounter, LAMBDA path : path \notin SeqToSet(order))

InitialOrderListedFirst ==
  (/\ pc = "ready" /\ SelectionPage
   /\ selectedListInitialOrder.type = "array"
   /\ NoDuplicates(selectedListInitialOrder.items))
    => selectedItems = ListedThenUnlisted(selectedListInitialOrder.items, EncounterOrder)

\* C4 (malformed initial order is a no-op), as the specification states it:
\* with an initial-order attribute that is not JSON or not a JSON array the
\* load handler does not throw, the selected list is in encounter order, and
\* the serialized inputs, reorder controls and summary are computed.
MalformedOrNonArray(attr) ==
  attr.kind = "malformed" \/ (attr.kind = "json" /\ attr.value.type # "array")

MalformedOrderIsNoOp ==
  (pc = "ready" /\ page = FullPage /\ MalformedOrNonArray(initialOrderAttr))
    => /\ ~loadThrew
       /\ selectedItems = EncounterOrder
       /\ orderedInputs = selectedItems
       /\ SelState = updateSelectedSummary(updateReorderControls(SelState))

\* C5 (feature-by-feature degradation), as the specification states it: on a
\* page with the editor, the catalog and the selected panel but no search box,
\* the checked entries are in the selected list and the serialized inputs
\* follow it.
DegradesWithoutSearch ==
  (pc = "ready" /\ page = NoSearchPage)
    => /\ SeqToSet(selectedItems) = CheckedIds
       /\ orderedInputs = selectedItems

\* C6 (Invariant B): no identifier occurs twice in the selected list or in
\* the serialized inputs, also after a change event for an identifier that is
\* already checked and selected.
NoDuplicateIds == NoDuplicates(selectedItems) /\ NoDuplicates(orderedInputs)

\* A state a change event for the checked and selected first entry has been
\* delivered to: its handler is registered, and the entry is selected once.
WitnessC6 ==
  /\ pc = "ready" /\ page = FullPage /\ wired.change
  /\ checked[1] /\ Len(selectedItems) >= 2
  /\ Len(SelectSeq(selectedItems, LAMBDA path : path = PathPool[1])) = 1
  /\ ENABLED ChangeEvent(1)

\* C7 (order stability under addition): a step that checks the checkbox of
\* an identifier that has no item appends that identifier to the selected
\* list and leaves the order of the others as it was.
IsAddOf(i) ==
  /\ pc = "ready" /\ SelectionPage
  /\ ~checked[i] /\ checked'[i]
  /\ FileEntries[i].path \notin SeqToSet(selectedItems)

AddAppendsLast ==
  [][\A i \in Regular :
       IsAddOf(i) => selectedItems' = Append(selectedItems, FileEntries[i].path)]_vars

\* The first entry of the document is the last item of a three-item list: it
\* was added after the other two.
WitnessC7 ==
  /\ pc = "ready" /\ page = FullPage /\ initialOrderAttr = AttrAbsent
  /\ selectedItems = <<PathPool[3], PathPool[2], PathPool[1]>>
  /\ \A i \in Regular : checked[i]

\* C8 (move boundary): wherever the selected list has items, a move-up
\* click on the first item and a move-down click on the last item leave the
\* selected list, the serialized inputs, the rest of the panel and every
\* checkbox as they are.
MoveBoundaryNoOp ==
  (pc = "ready" /\ selectedItems # <<>>)
    => LET same == [checked |-> checked, sel |-> SelState]
       IN /\ MoveOutcome(selectedItems[1], -1) = same
          /\ MoveOutcome(selectedItems[Len(selectedItems)], 1) = same

\* A list of several items whose first and last item can be sent the clicks.
WitnessC8 ==
  /\ pc = "ready" /\ page = FullPage
  /\ Len(selectedItems) >= 2
  /\ selectedItems[1] \in moveUpDisabled
  /\ ENABLED MoveUpClick(selectedItems[1])
  /\ ENABLED MoveDownClick(selectedItems[Len(selectedItems)])

\* C9 (adjacent move): wherever an item of the selected list is not first, a
\* move-up click on it swaps it with its predecessor, and wherever it is not
\* last, a move-down click swaps it with its successor; the other positions,
\* the set of selected identifiers and the checkboxes stay, the serialized
\* inputs follow, and the opposite move on the result restores the order.
SwapOutcomeOk(item, direction) ==
  LET at == IndexOf(selectedItems, item)
      out == MoveOutcome(item, direction)
  IN /\ out.sel.items = Swapped(selectedItems, at, at + direction)
     /\ out.sel.map = selectedEntryMap
     /\ out.checked = checked
     /\ page.orderedInputsContainer => out.sel.inputs = out.sel.items
     /\ moveSelectedItem(out.sel, item, -direction).items = selectedItems

MoveSwapsNeighbours ==
  (pc = "ready" /\ page.selectedList)
    => \A at \in 1..Len(selectedItems) :
         /\ at > 1 => SwapOutcomeOk(selectedItems[at], -1)
         /\ at < Len(selectedItems) => SwapOutcomeOk(selectedItems[at], 1)

\* A three-item list whose middle item can be moved either way.
WitnessC9 ==
  /\ pc = "ready" /\ page = FullPage
  /\ Len(selectedItems) = 3
  /\ selectedItems[2] \notin moveUpDisabled \cup moveDownDisabled
  /\ ENABLED MoveUpClick(selectedItems[2])
  /\ ENABLED MoveDownClick(selectedItems[2])

\* C10 (search mirror non-divergence): wherever search results are shown, a
\* click on the proxy checkbox of a result whose entry has a native checkbox
\* leaves the same checkboxes, selected panel, serialized inputs and rendered
\* results as a click on that native checkbox.
ProxyActsAsNative ==
  (pc = "ready" /\ ResultsShown)
    => \A k \in 1..Len(resultsItems) :
         FileEntries[resultsItems[k].entry].hasCheckbox
           => ProxyClickOutcome(k) = NativeClickOutcome(resultsItems[k].entry)

\* Results are shown with a checked proxy of a selected entry and an
\* unchecked proxy of an unselected one.
WitnessC10 ==
  /\ pc = "ready" /\ page = FullPage /\ ResultsShown
  /\ \E k, m \in 1..Len(resultsItems) :
       /\ resultsItems[k].mirrorChecked
       /\ FileEntries[resultsItems[k].entry].path \in SeqToSet(selectedItems)
       /\ ~resultsItems[m].mirrorChecked
       /\ FileEntries[resultsItems[m].entry].hasCheckbox
       /\ ENABLED ProxyClick(k)
       /\ ENABLED ProxyClick(m)

\* C11 (remove): wherever an item is in the selected list, a click on its
\* remove button leaves the entry's native checkbox unchecked, the identifier
\* in neither the selected list nor the serialized inputs, the selected
\* identifiers equal to the checked ones, and the same checkboxes, panel and
\* rendered results as a click on the checked native checkbox.
RemoveOk(item) ==
  \A i \in {EntryOfItem(item)}, out \in {RemoveOutcome(item)} :
    /\ i # 0
    /\ out.checked = [checked EXCEPT ![i] = FALSE]
    /\ item \notin SeqToSet(out.sel.items)
    /\ item \notin SeqToSet(out.sel.inputs)
    /\ item \notin out.sel.map
    /\ SeqToSet(out.sel.items) = CheckedIdsOf(out.checked)
    /\ checked[i] => out = NativeClickOutcome(i)

RemoveDrivesToggle ==
  (pc = "ready" /\ SelectionPage)
    => \A item \in SeqToSet(selectedItems) : RemoveOk(item)

\* The remove button of the middle item of a three-item list can be clicked
\* while search results that show this entry are rendered.
WitnessC11 ==
  /\ pc = "ready" /\ page = FullPage /\ ResultsShown
  /\ Len(selectedItems) = 3 /\ orderedInputs = selectedItems
  /\ \E k \in 1..Len(resultsItems) :
       /\ FileEntries[resultsItems[k].entry].path = selectedItems[2]
       /\ resultsItems[k].mirrorChecked
  /\ ENABLED RemoveClick(selectedItems[2])

\* C12 (preview single-active): in every reachable state at most one catalog
\* entry has the class preview-active; and wherever a preview can open, a
\* click on a preview trigger of an entry y that has a media URI, inside the
\* tree or outside it, leaves y as the only entry with the class, whichever
\* entry had it before, and the modal open.
OpensOnly(y, closestPath) ==
  LET out == PreviewTriggerClick(PreviewState, TriggerName(y),
                                 FileEntries[y].previewSrc, FileEntries[y].path,
                                 closestPath)
  IN out.flagged = {y} /\ out.active = y /\ out.open

SinglePreviewActive ==
  /\ Cardinality(previewActive) <= 1
  /\ (pc = "ready" /\ wired.preview /\ page.previewModal /\ page.previewVideo)
       => \A y \in Regular :
            FileEntries[y].previewSrc # ""
              => OpensOnly(y, FileEntries[y].path) /\ OpensOnly(y, <<>>)

\* The second entry is highlighted and its preview is open while the preview
\* trigger of the first entry can be clicked, in the tree and in the panel.
WitnessC12 ==
  /\ pc = "ready" /\ page = FullPage
  /\ previewActive = {2} /\ activePreviewEntry = 2
  /\ previewOpen /\ videoSrc = "src2"
  /\ ENABLED TreePreviewClick(1)
  /\ ENABLED PanelPreviewClick(PathPool[1])

\* C13 (no results vs not searching): once the page is loaded, the results
\* wrapper is hidden exactly when the trimmed query is empty; with a non-empty
\* trimmed query that no identifier contains, the wrapper is shown, the
\* results list is hidden and empty and the no-results alert is shown; with
\* one that some identifier contains, the list is shown and the alert hidden.
SearchPanelDistinction ==
  (pc = "ready" /\ SearchPage)
    => LET query == Trim(searchValue)
       IN /\ resultsWrapperHidden <=> (query = <<>>)
          /\ (query = <<>> /\ page.noResultsAlert) => noResultsHidden
          /\ (query # <<>> /\ MatchingEntries(query) = {})
               => /\ resultsListHidden /\ resultsItems = <<>>
                  /\ page.noResultsAlert => ~noResultsHidden
          /\ (query # <<>> /\ MatchingEntries(query) # {})
               => /\ ~resultsListHidden /\ resultsItems # <<>>
                  /\ page.noResultsAlert => noResultsHidden

\* A query that nothing matches is in the search box, the alert is shown, a
\* checkbox was checked, and both a click on the clear button and a query of
\* white space can follow.
WitnessC13 ==
  /\ pc = "ready" /\ page = FullPage
  /\ searchValue = <<"n">> /\ ~resultsWrapperHidden /\ resultsListHidden
  /\ ~noResultsHidden /\ selectedItems # <<>>
  /\ ENABLED ClearClick /\ ENABLED SearchInput(<<" ">>)

\* C19 (search filter result): once the page is loaded, with a non-empty
\* trimmed query the rendered results stand for exactly the entries whose
\* non-empty identifier contains the trimmed query, letter case ignored, each
\* once and in document order; the display name plays no part.
SearchFilterResult ==
  (pc = "ready" /\ SearchPage /\ Trim(searchValue) # <<>>)
    => /\ SeqToSet(RenderedEntries) = MatchingEntries(Trim(searchValue))
       /\ \A a, b \in 1..Len(RenderedEntries) :
            a < b => RenderedEntries[a] < RenderedEntries[b]

\* The query "B " renders the second and the third entry, whose identifiers
\* contain B and b, and not the first, whose display name is not its path.
WitnessC19 ==
  /\ pc = "ready" /\ page = FullPage
  /\ searchValue = <<"B", " ">>
  /\ RenderedEntries = <<2, 3>>
  /\ FileEntries[1].name # FileEntries[1].path

\* C14 (idempotent toggle change): in every state the loaded page rests
\* in, so also in the state a change event has just been handled in, a change
\* event delivered to a checkbox that agrees with the membership of its entry
\* in the selected list (checked and selected, or unchecked and not selected)
\* leaves the checkboxes, the selected list, its order, the serialized inputs
\* and the rest of the panel as they are: a second delivery of a change
\* event changes nothing the first one has left.
MembershipMatches(i) ==
  checked[i] <=> (FileEntries[i].path # <<>>
                  /\ FileEntries[i].path \in SeqToSet(selectedItems))

RedundantChangeIsNoOp(i) ==
  \A out \in {ToggleOutcome(checked, SearchState, i)} :
    /\ out.checked = checked
    /\ out.sel = SelState

ToggleChangeIdempotent ==
  (pc = "ready" /\ wired.change)
    => \A i \in EntryIds :
         (FileEntries[i].hasCheckbox
          /\ (MembershipMatches(i) \/ FileEntries[i].path = <<>>))
           => RedundantChangeIsNoOp(i)

\* A change event can be delivered to the checked first entry, which is the
\* first of two selected items, and to the unchecked third entry, which has
\* no item.
WitnessC14 ==
  /\ pc = "ready" /\ page = FullPage
  /\ selectedItems = <<PathPool[1], PathPool[2]>>
  /\ checked[1] /\ ~checked[3]
  /\ ENABLED ChangeEvent(1) /\ ENABLED ChangeEvent(3)

\* C15 (reorder-control enablement): once the page is loaded, the move-up
\* button of an item of the selected list is disabled exactly when the item
\* is first, and its move-down button exactly when it is last.
ReorderControlsMatchPosition ==
  (pc = "ready" /\ page.selectedList)
    => \A at \in 1..Len(selectedItems) :
         /\ (selectedItems[at] \in moveUpDisabled) <=> (at = 1)
         /\ (selectedItems[at] \in moveDownDisabled) <=> (at = Len(selectedItems))

\* After the initial order was applied and items were moved: the first
\* catalog entry, first in document order, is the enabled middle item of three.
WitnessC15 ==
  /\ pc = "ready" /\ page = SparsePage /\ initialOrderAttr = PartialOrderAttr
  /\ Len(selectedItems) = 3 /\ selectedItems[2] = PathPool[1]
  /\ moveUpDisabled = {selectedItems[1]}
  /\ moveDownDisabled = {selectedItems[3]}

\* C16 (selected summary): once the page is loaded, on a page with the search
\* surface and the selected panel, the empty-state element is hidden exactly
\* when the selected list has an item, and the count label reads "1 Video"
\* for one item and "N Videos" for any other number N of items.
SelectedSummaryMatches ==
  (pc = "ready" /\ SelectionPage)
    => /\ page.selectedEmptyState => (emptyStateHidden <=> Len(selectedItems) > 0)
       /\ page.selectedCount
            => /\ countText.n = Len(selectedItems)
               /\ countText.word = (IF Len(selectedItems) = 1 THEN "Video" ELSE "Videos")

\* One item is selected and the label is singular, and the item can be
\* removed, which makes the list empty.
WitnessC16 ==
  /\ pc = "ready" /\ page = FullPage
  /\ Len(selectedItems) = 1 /\ emptyStateHidden
  /\ countText = [n |-> 1, word |-> "Video"]
  /\ ENABLED RemoveClick(selectedItems[1])

\* C17 (Invariant C): a step of the loaded page that is not a click on a
\* move button keeps the relative order of the identifiers that are in the
\* selected list before and after it; so does, in particular, a removal by
\* native checkbox, proxy or remove button, a search, a reveal and the opening
\* or closing of a preview.
RelativeOrderKept(before, after) ==
  SelectSeq(before, LAMBDA path : path \in SeqToSet(after))
    = SelectSeq(after, LAMBDA path : path \in SeqToSet(before))

MoveStep ==
  \E item \in SeqToSet(selectedItems) : MoveUpClick(item) \/ MoveDownClick(item)

OrderNeverResorted ==
  [][pc = "ready"
       => (RelativeOrderKept(selectedItems, selectedItems') \/ MoveStep)]_vars

\* The list is in an order that is neither document order nor its reverse,
\* and its first item can be removed by the remove button, the native
\* checkbox and a rendered proxy, while a preview is open; the folder of that
\* item's entry is collapsed and the entry can be revealed from its result.
WitnessC17 ==
  /\ pc = "ready" /\ page = FullPage /\ ResultsShown /\ previewOpen
  /\ selectedItems = <<PathPool[2], PathPool[3], PathPool[1]>>
  /\ ~folderExpanded[1]
  /\ ENABLED RemoveClick(PathPool[2]) /\ ENABLED NativeClick(2)
  /\ ENABLED FolderToggleClick(1)
  /\ \E k \in 1..Len(resultsItems) :
       /\ resultsItems[k].entry = 2
       /\ ENABLED ProxyClick(k)
       /\ ENABLED RevealClick(k)

\* C18 (no persistent mirror staleness): in every state the loaded page
\* rests in with results shown, the proxy checkbox of every rendered result
\* whose entry has a native checkbox is checked exactly when that native
\* checkbox is.
MirrorAgrees(item) ==
  FileEntries[item.entry].hasCheckbox => item.mirrorChecked = checked[item.entry]

MirrorNeverStale ==
  (pc = "ready" /\ ResultsShown)
    => \A k \in 1..Len(resultsItems) : MirrorAgrees(resultsItems[k])

\* Two results are rendered; the proxy of the second entry is checked and
\* that of the third is not, the second entry is the last of two selected
\* items, and it can be toggled from its proxy, its native checkbox and its
\* remove button.
WitnessC18 ==
  /\ pc = "ready" /\ page = FullPage /\ searchValue = <<"B", " ">>
  /\ Len(resultsItems) = 2
  /\ resultsItems[1] = [entry |-> 2, mirrorChecked |-> TRUE]
  /\ resultsItems[2] = [entry |-> 3, mirrorChecked |-> FALSE]
  /\ selectedItems = <<PathPool[1], PathPool[2]>>
  /\ ENABLED ProxyClick(2) /\ ENABLED NativeClick(3)
  /\ ENABLED RemoveClick(PathPool[2])

\* C20 (the preview coordinator never mutates selection): a click on a
\* preview trigger in the tree, the selected panel or the search results, and
\* a close by close button, backdrop click or Escape, leave every native
\* checkbox, the selected list, selectedEntryMap and the serialized inputs as
\* they are.
PreviewStep ==
  \/ \E i \in Regular : TreePreviewClick(i) \/ PanelPreviewClick(PathPool[i])
  \/ \E k \in 1..NumAll : ResultPreviewClick(k)
  \/ CloseButtonClick
  \/ BackdropClick
  \/ EscapeKey

PreviewKeepsSelection ==
  [][UNCHANGED <<checked, selectedItems, selectedEntryMap, orderedInputs>>
       \/ ~PreviewStep]_vars

\* The preview of the unselected second entry is open while the first entry
\* is selected: previews can be requested from the tree, the panel and the
\* results, and the open one can be closed.
WitnessC20 ==
  /\ pc = "ready" /\ page = FullPage /\ ResultsShown
  /\ previewOpen /\ videoPlaying /\ activePreviewEntry = 2
  /\ ~checked[2] /\ selectedItems = <<PathPool[1]>>
  /\ ENABLED TreePreviewClick(1) /\ ENABLED PanelPreviewClick(PathPool[1])
  /\ (\E k \in 1..Len(resultsItems) : ENABLED ResultPreviewClick(k))
  /\ ENABLED CloseButtonClick /\ ENABLED EscapeKey

\* C21 (preview close): wherever the preview is open, what the close
\* button, the backdrop click and the Escape key leave is a hidden modal, a
\* paused video and no video source; wherever it is closed, Escape leaves the
\* preview state as it is; and a click on a preview trigger leaves the modal
\* open afterwards only if it was open before or the trigger carries a media
\* URI, and opens it whenever the trigger carries one.
Closed(P) == ~P.open /\ ~P.playing /\ P.src = ""

PreviewCloses ==
  (pc = "ready" /\ wired.preview)
    => /\ isPreviewOpen
            => Closed(closePreview(PreviewState)) /\ Closed(EscapeOutcome)
       /\ ~isPreviewOpen => EscapeOutcome = PreviewState
       /\ \A y \in Regular : \A src \in {"", FileEntries[y].previewSrc} :
            \A out \in {PreviewTriggerClick(PreviewState, TriggerName(y), src,
                                            FileEntries[y].path,
                                            FileEntries[y].path)} :
              /\ (out.open /\ ~previewOpen) => src # ""
              /\ (src # "" /\ page.previewModal /\ page.previewVideo)
                   => out.open /\ out.playing /\ out.src = src
              /\ src = "" => [out EXCEPT !.active = 0, !.flagged = {}]
                               = [PreviewState EXCEPT !.active = 0, !.flagged = {}]

\* The preview of the first entry is open and playing; the close button, the
\* backdrop and Escape can act on it, and the trigger of the third entry,
\* which has no media URI, can be clicked.
WitnessC21 ==
  /\ pc = "ready" /\ page = FullPage
  /\ previewOpen /\ videoPlaying /\ videoSrc = "src1"
  /\ FileEntries[3].previewSrc = ""
  /\ ENABLED CloseButtonClick /\ ENABLED BackdropClick /\ ENABLED EscapeKey
  /\ ENABLED TreePreviewClick(3)

\* C22 (highlight implies visibility), as the specification states it: once
\* the page is loaded, every folder that is an ancestor of an entry with the
\* class preview-active is expanded.
HighlightImpliesVisible ==
  pc = "ready"
    => \A e \in previewActive : \A f \in FolderAncestors(e) : folderExpanded[f]

\* C23 (preview states closed and open(id)), as the specification states it:
\* once the page is loaded, no entry has the class preview-active while the
\* modal is hidden, and while it is shown only the entry whose media URI the
\* video plays has it.
HighlightOnlyWhileOpen ==
  (pc = "ready" /\ page.previewModal /\ page.previewVideo)
    => /\ ~previewOpen => previewActive = {}
       /\ previewOpen
            => \A e \in previewActive : FileEntries[e].previewSrc = videoSrc

\* C24 (reveal): wherever results are shown, what the reveal button of the
\* k-th result leaves is every ancestor folder of that result's entry
\* expanded and every other folder as it was; and every step that is a click
\* on the reveal button of the k-th result ends with the folders in that
\* state and changes no native checkbox, nothing of the selected panel and
\* its hidden inputs, and nothing of the preview.
RevealedFor(F, G, i) ==
  /\ \A f \in FolderAncestors(i) : G[f]
  /\ \A f \in Folders \ FolderAncestors(i) : G[f] = F[f]

RevealOutcomeExpandsAncestors ==
  (pc = "ready" /\ ResultsShown)
    => \A k \in 1..Len(resultsItems) :
         RevealedFor(folderExpanded,
                     revealEntry(folderExpanded, resultsItems[k].entry),
                     resultsItems[k].entry)

RevealOnlyExpandsAncestors ==
  /\ []RevealOutcomeExpandsAncestors
  /\ [][\A k \in 1..NumAll :
          RevealClick(k)
            => /\ RevealedFor(folderExpanded, folderExpanded', resultsItems[k].entry)
               /\ UNCHANGED <<checked, selVars, previewVars>>]_vars

\* Results are shown for the entry nested in both folders while both are
\* collapsed, an entry is selected and a preview is open: its reveal button
\* can be clicked.
WitnessC24 ==
  /\ pc = "ready" /\ page = FullPage
  /\ ~folderExpanded[1] /\ ~folderExpanded[2]
  /\ selectedItems # <<>> /\ previewOpen
  /\ \E k \in 1..Len(resultsItems) :
       /\ resultsItems[k].entry = 3
       /\ ENABLED RevealClick(k)

\* C25 (applyInitialOrder changes order only): on a page with the three toggle
\* surfaces and an array as initial order, applyInitialOrder does not throw
\* and leaves the selected list with the same identifiers as the initial sync
\* built, each once, and with the same item map; after the load the list holds
\* exactly the checked identifiers, and the load changes no native checkbox.
OrderKeepsMembership ==
  /\ (pc = "init" /\ SelectionPage
       /\ InitialOrderOf(page, initialOrderAttr).type = "array")
       => \A before \in {InitialSync(SelState, 1)} :
            \A applied \in {applyInitialOrder(before, InitialOrderOf(page, initialOrderAttr))} :
              /\ ~applied.threw
              /\ SeqToSet(applied.sel.items) = SeqToSet(before.items)
              /\ Len(applied.sel.items) = Len(before.items)
              /\ NoDuplicates(applied.sel.items)
              /\ applied.sel.map = before.map
              /\ SeqToSet(applied.sel.items) = CheckedIds
  /\ (pc = "ready" /\ SelectionPage /\ selectedListInitialOrder.type = "array")
       => /\ ~loadThrew
          /\ SeqToSet(selectedItems) = CheckedIds
          /\ NoDuplicates(selectedItems)

InitialOrderChangesOrderOnly ==
  []OrderKeepsMembership /\ [][checked' = checked]_vars

\* Loaded with all three entries checked and an initial order that repeats
\* the third identifier: the list is reordered and has three items.
WitnessC25 ==
  /\ pc = "ready" /\ page = FullPage
  /\ initialOrderAttr = AttrJson(JsArray(<<PathPool[3], PathPool[1], PathPool[3]>>))
  /\ selectedItems = <<PathPool[2], PathPool[1], PathPool[3]>>
  /\ checked[1] /\ checked[2] /\ checked[3]

\* C26 (status polling is isolated and failure-tolerant), as the
\* specification states it: a step of the status script changes nothing of the
\* playlist form; a request whose fetch fails or is answered not OK, whose
\* body is not JSON, or whose body names another active playlist than the
\* page's leaves the badge unchanged; every other response leaves the badge
\* rendering the reported mode, and rendering idle when the mode is missing or
\* is none of trigger, loop, idle.
CompleteBadge == statusDoc.indicator /\ statusDoc.dot /\ statusDoc.text

Refused(b) ==
  \/ b.kind # "json"
  \/ /\ playlistName(statusDoc) # ""
     /\ b.payload.active_playlist \notin {"", playlistName(statusDoc)}

ReportedMode(b) ==
  IF b.payload.hasStatus /\ b.payload.mode \in DOMAIN modeConfig
  THEN b.payload.mode ELSE "idle"

Renders(B, mode) ==
  /\ B.text = modeConfig[mode].text
  /\ B.classes \cap (textClassesToReset \cup {"undefined"}) = {modeConfig[mode].textClass}
  /\ B.dotClasses \cap (dotClassesToReset \cup {"undefined"}) = {modeConfig[mode].dotClass}

BadgeFollowsResponses ==
  (statusPc = "ready" /\ awaitingJson > 0)
    => \A b \in Bodies :
         \A out \in {fetchStatusParsed(statusDoc, indicator, b)} :
           /\ Refused(b) => out = indicator
           /\ (~Refused(b) /\ CompleteBadge) => Renders(out, ReportedMode(b))

FetchStep == \E outcome \in FetchOutcomes : FetchSettles(outcome)

StatusStep == StatusLoad \/ IntervalTick \/ FetchStep \/ \E b \in Bodies : BodySettles(b)

StatusPollingTolerant ==
  /\ []BadgeFollowsResponses
  /\ [][StatusStep => UNCHANGED formVars]_vars
  /\ [][(FetchStep \/ IntervalTick) => UNCHANGED indicator]_vars

====
